---- MODULE Spec2Model ----
(***************************************************************************)
(* The POST handler of src/app/api/food/guess/route.ts: one request from   *)
(* its arrival to its single response.  JSON values are tagged records;    *)
(* a string is its literal head `s` followed by `pad` further characters,  *)
(* so that a 3,500,000 character image is a value TLC can hold; a string   *)
(* that is the text of a JSON document carries the value it encodes.       *)
(***************************************************************************)
EXTENDS Integers, Sequences, FiniteSets, TLC

VARIABLES
    pc,          \* position of the handler
    reqBody,     \* the request body as received: what req.json() will yield
    apiKey,      \* process.env.OPENAI_API_KEY at request time
    body,        \* const body (line 34)
    base64,      \* const base64 (line 48)
    prompt,      \* const prompt (line 50)
    openaiRes,   \* const openaiRes (line 62)
    textOut,     \* const textOut (line 90)
    json,        \* const json (line 95)
    parsed,      \* const parsed (line 96)
    fetched,     \* the requests sent to the upstream, in order
    responses,   \* the responses returned to the caller, in order
    stages       \* the stages the request went through, in order

vars == <<pc, reqBody, apiKey, body, base64, prompt, openaiRes, textOut, json,
          parsed, fetched, responses, stages>>

-----------------------------------------------------------------------------
(* Bounds of the model *)

\* items lists of the upstream payload have 0..MaxListLen elements
MaxListLen == 9
\* output lists of the upstream envelope have 0..MaxOutputLen entries
MaxOutputLen == 2

(* Constants of the program *)

MinImageLen == 100
MaxImageLen == 3500000
MaxItems == 8
MinGrams == 1
MaxGrams == 2000
MaxCalories == 5000
MaxMacro == 500

-----------------------------------------------------------------------------
(* JSON values *)

Undefined == [t |-> "undefined"]
Null == [t |-> "null"]
\* the number int + half/2
Num(i, h) == [t |-> "number", int |-> i, half |-> h]
Str(s) == [t |-> "string", s |-> s, pad |-> 0]
\* the string s followed by n base64 characters
Padded(s, n) == [t |-> "string", s |-> s, pad |-> n]
\* the text JSON.stringify(v)
JsonText(v) == [t |-> "string", s |-> "<json>", pad |-> 0, encodes |-> v]
Obj(f) == [t |-> "object", fields |-> f]
Arr(e) == [t |-> "array", elems |-> e]

\* v.length of a string
Length(v) == Len(v.s) + v.pad

\* o.k, and o?.k for an o that may be undefined or null
Get(o, k) ==
    IF o.t = "object" /\ k \in DOMAIN o.fields THEN o.fields[k] ELSE Undefined

\* x ?? y
Nullish(x) == x.t \in {"undefined", "null"}

\* Boolean(x) of a string or undefined
Truthy(x) == x.t = "string" /\ Length(x) > 0

NumLt(x, n) == x.int < n
NumGt(x, n) == x.int > n \/ (x.int = n /\ x.half = 1)

Ok(v) == [threw |-> FALSE, value |-> v, message |-> ""]
Throw(m) == [threw |-> TRUE, value |-> Undefined, message |-> m]

\* JSON.parse(text); a number or null is first converted to its text
JSONparse(text) ==
    IF text.t = "string" /\ "encodes" \in DOMAIN text
    THEN Ok(text.encodes)
    ELSE IF text.t \in {"number", "null"} THEN Ok(text)
    ELSE Throw(IF Length(text) = 0
               THEN "Unexpected end of JSON input"
               ELSE "Unexpected token in JSON")

RECURSIVE Join(_, _)
\* lines.join(sep)
Join(lines, sep) ==
    IF Len(lines) = 0 THEN ""
    ELSE IF Len(lines) = 1 THEN lines[1]
    ELSE lines[1] \o sep \o Join(Tail(lines), sep)

RECURSIVE Flat(_)
\* the concatenation of a sequence of sequences
Flat(ss) == IF Len(ss) = 0 THEN <<>> ELSE ss[1] \o Flat(Tail(ss))

-----------------------------------------------------------------------------
(* The schemas.  A schema yields the issues of a value, in zod's traversal  *)
(* order, and the parsed output, which holds the keys of the shape only.    *)

Issue(path, code) == [path |-> path, code |-> code]

\* z.string().min(n)
StringMinIssues(v, n, path) ==
    IF v.t # "string" THEN <<Issue(path, "invalid_type")>>
    ELSE IF Length(v) < n THEN <<Issue(path, "too_small")>>
    ELSE <<>>

\* z.string().optional()
OptionalStringIssues(v, path) ==
    IF v.t \in {"undefined", "string"} THEN <<>>
    ELSE <<Issue(path, "invalid_type")>>

\* z.number().min(lo).max(hi)
NumberRangeIssues(v, lo, hi, path) ==
    IF v.t # "number" THEN <<Issue(path, "invalid_type")>>
    ELSE (IF NumLt(v, lo) THEN <<Issue(path, "too_small")>> ELSE <<>>)
         \o (IF NumGt(v, hi) THEN <<Issue(path, "too_big")>> ELSE <<>>)

\* ReqSchema with imageBase64: z.string(), the minimum length left out
ReqSchemaIssuesNoMin(v) ==
    IF v.t # "object" THEN <<Issue(<<>>, "invalid_type")>>
    ELSE StringMinIssues(Get(v, "imageBase64"), 0, <<"imageBase64">>)
         \o OptionalStringIssues(Get(v, "mealHint"), <<"mealHint">>)

\* ReqSchema.safeParse(v).error.issues
ReqSchemaIssues(v) ==
    IF v.t # "object" THEN <<Issue(<<>>, "invalid_type")>>
    ELSE StringMinIssues(Get(v, "imageBase64"), MinImageLen, <<"imageBase64">>)
         \o OptionalStringIssues(Get(v, "mealHint"), <<"mealHint">>)

\* the output of ReqSchema on a value without issues
ReqSchemaData(v) ==
    LET keys == {k \in {"imageBase64", "mealHint"} : Get(v, k).t # "undefined"}
    IN  Obj([k \in keys |-> Get(v, k)])

\* ZodError.message: the issues, serialised
ZodMessage(issues) ==
    Join([i \in 1..Len(issues) |->
            issues[i].code \o " at /" \o Join(issues[i].path, "/")], "; ")

\* ReqSchema.parse(v)
ReqSchemaParse(v) ==
    IF ReqSchemaIssues(v) = <<>> THEN Ok(ReqSchemaData(v))
    ELSE Throw(ZodMessage(ReqSchemaIssues(v)))

\* the nutrients object of ResSchema
NutrientsIssues(v, path) ==
    IF v.t # "object" THEN <<Issue(path, "invalid_type")>>
    ELSE NumberRangeIssues(Get(v, "calories"), 0, MaxCalories, path \o <<"calories">>)
         \o NumberRangeIssues(Get(v, "protein_g"), 0, MaxMacro, path \o <<"protein_g">>)
         \o NumberRangeIssues(Get(v, "carbs_g"), 0, MaxMacro, path \o <<"carbs_g">>)
         \o NumberRangeIssues(Get(v, "fat_g"), 0, MaxMacro, path \o <<"fat_g">>)

NutrientsData(v) ==
    Obj([k \in {"calories", "protein_g", "carbs_g", "fat_g"} |-> Get(v, k)])

\* grams: z.number().min(0).max(2000)
GramsIssuesFromZero(v, path) == NumberRangeIssues(v, 0, MaxGrams, path)

\* grams: z.number().min(1).max(2000)
GramsIssues(v, path) == NumberRangeIssues(v, MinGrams, MaxGrams, path)

\* the element object of ResSchema.items
ItemIssues(v, path) ==
    IF v.t # "object" THEN <<Issue(path, "invalid_type")>>
    ELSE StringMinIssues(Get(v, "name"), 1, path \o <<"name">>)
         \o GramsIssues(Get(v, "grams"), path \o <<"grams">>)
         \o NutrientsIssues(Get(v, "nutrients"), path \o <<"nutrients">>)

\* the item with grams: z.number().transform(Math.floor)
ItemDataFloored(v) ==
    Obj([k \in {"name", "grams", "nutrients"} |->
            IF k = "nutrients" THEN NutrientsData(Get(v, k))
            ELSE IF k = "grams" THEN Num(Get(v, k).int, 0)
            ELSE Get(v, k)])

\* the output of the element object on a value without issues
ItemData(v) ==
    Obj([k \in {"name", "grams", "nutrients"} |->
            IF k = "nutrients" THEN NutrientsData(Get(v, k)) ELSE Get(v, k)])

\* items: z.array(...).max(8)
ItemsIssues(v, path) ==
    IF v.t # "array" THEN <<Issue(path, "invalid_type")>>
    ELSE (IF Len(v.elems) > MaxItems THEN <<Issue(path, "too_big")>> ELSE <<>>)
         \o Flat([i \in 1..Len(v.elems) |-> ItemIssues(v.elems[i], path \o <<i>>)])

\* ResSchema.safeParse(v).error.issues
ResSchemaIssues(v) ==
    IF v.t # "object" THEN <<Issue(<<>>, "invalid_type")>>
    ELSE ItemsIssues(Get(v, "items"), <<"items">>)

\* the output of ResSchema on a value without issues
ResSchemaData(v) ==
    Obj([k \in {"items"} |->
            Arr([i \in 1..Len(Get(v, k).elems) |-> ItemData(Get(v, k).elems[i])])])

\* parsed.error.flatten()
Flatten(issues) ==
    LET form == SelectSeq(issues, LAMBDA i : Len(i.path) = 0)
        field == SelectSeq(issues, LAMBDA i : Len(i.path) > 0)
        keys == {field[i].path[1] : i \in 1..Len(field)}
        At(k) == SelectSeq(field, LAMBDA i : i.path[1] = k)
    IN  Obj([formErrors |-> Arr([i \in 1..Len(form) |-> Str(form[i].code)]),
             fieldErrors |->
                Obj([k \in keys |-> Arr([i \in 1..Len(At(k)) |-> Str(At(k)[i].code)])])])

\* ResSchema.safeParse(v)
ResSchemaSafeParse(v) ==
    IF ResSchemaIssues(v) = <<>>
    THEN [success |-> TRUE, data |-> ResSchemaData(v), error |-> Undefined]
    ELSE [success |-> FALSE, data |-> Undefined, error |-> Flatten(ResSchemaIssues(v))]

-----------------------------------------------------------------------------
(* The inputs: request bodies, credentials and upstream behaviours *)

DataUrlPrefix == "data:image/png;base64,"

\* caller-supplied images, by total length, with and without a data-URL prefix
ImageLens == {MinImageLen - 1, MinImageLen, MaxImageLen, MaxImageLen + 1}
Images ==
    {Padded(p, n - Len(p)) : p \in {"", DataUrlPrefix}, n \in ImageLens}
        \cup {Undefined, Num(7, 0)}

Hints == {Undefined, Str(""), Str("breakfast"), Num(5, 0)}

\* the object with the defined members of f
ObjOf(f) == Obj([k \in {x \in DOMAIN f : f[x].t # "undefined"} |-> f[k]])

\* what req.json() yields
RequestBodies ==
    {Ok(ObjOf([imageBase64 |-> i, mealHint |-> h])) : i \in Images, h \in Hints}
        \cup {Ok(Null), Throw("Unexpected token in JSON")}

ApiKeys == {Undefined, Str(""), Str("sk-test")}

Nutrients(c, p, cb, f) ==
    Obj([calories |-> c, protein_g |-> p, carbs_g |-> cb, fat_g |-> f])

Oatmeal == Nutrients(Num(180, 0), Num(6, 0), Num(32, 0), Num(3, 0))
Item(n, g, nu) == ObjOf([name |-> n, grams |-> g, nutrients |-> nu])

\* the two items that fill the lists
Filler(i) ==
    IF i % 2 = 1 THEN Item(Str("oatmeal"), Num(250, 0), Oatmeal)
    ELSE Item(Str("banana"), Num(118, 1),
              Nutrients(Num(105, 0), Num(1, 1), Num(27, 0), Num(0, 1)))

GramsValues ==
    {Num(-1, 1), Num(0, 0), Num(0, 1), Num(MinGrams, 0), Num(MaxGrams, 0),
     Num(MaxGrams, 1), Str("250"), Undefined}

\* the items tried at one position of a list
ProbeItems ==
    {Item(Str("oatmeal"), g, Oatmeal) : g \in GramsValues}
    \cup {Item(n, Num(250, 0), Oatmeal) : n \in {Str(""), Num(1, 0), Undefined}}
    \cup {Item(Str("rice"), Num(250, 0), Nutrients(c, Num(6, 0), Num(32, 0), Num(3, 0))) :
            c \in {Num(-1, 1), Num(0, 0), Num(MaxCalories, 0), Num(MaxCalories, 1), Null}}
    \cup {Item(Str("tofu"), Num(250, 0), Nutrients(Num(180, 0), p, Num(32, 0), Num(3, 0))) :
            p \in {Num(-1, 0), Num(MaxMacro, 0), Num(MaxMacro, 1)}}
    \cup {Item(Str("bread"), Num(250, 0), Nutrients(Num(180, 0), Num(6, 0), cb, Num(3, 0))) :
            cb \in {Num(0, 0), Num(MaxMacro, 1), Undefined}}
    \cup {Item(Str("butter"), Num(250, 0), Nutrients(Num(180, 0), Num(6, 0), Num(32, 0), f)) :
            f \in {Num(-1, 1), Num(MaxMacro, 0), Num(MaxMacro + 1, 0)}}
    \cup {Item(Str("egg"), Num(250, 0), nu) : nu \in {Undefined, Null, Str("none")}}
    \cup {Null,
          Obj([name |-> Str("soup"), grams |-> Num(300, 0), nutrients |-> Oatmeal,
               confidence |-> Num(0, 1)]),
          Item(Str("salad"), Num(120, 0),
               Obj([calories |-> Num(40, 0), protein_g |-> Num(2, 0),
                    carbs_g |-> Num(7, 0), fat_g |-> Num(0, 1), fiber_g |-> Num(3, 0)]))}

\* the list of n fillers with x at position p
ListWith(n, p, x) == Arr([i \in 1..n |-> IF i = p THEN x ELSE Filler(i)])

\* what the model's text may encode
Payloads ==
    UNION {{Obj([items |-> ListWith(n, p, x)]) : p \in {1, n}, x \in ProbeItems} :
            n \in {1, MaxItems}}
    \cup {Obj([items |-> ListWith(n, 0, Null)]) : n \in 0..MaxListLen}
    \cup {Obj([items |-> ListWith(2, 0, Null), notes |-> Str("estimated")]),
          Obj([items |-> Str("none")]), Obj([items |-> Null]),
          Obj([foods |-> ListWith(1, 0, Null)]),
          ListWith(1, 0, Null), Null, Num(5, 0), Str("oatmeal")}

EmptyText == Str("")
GarbageText == Str("Sorry, I cannot help with that.")
TextA == JsonText(Obj([items |-> ListWith(1, 0, Null)]))
TextB == JsonText(Obj([items |-> ListWith(2, 0, Null)]))

\* the texts a model may produce
Texts == {JsonText(v) : v \in Payloads} \cup {EmptyText, GarbageText}
FewTexts == {EmptyText, TextA}

Message(content) == ObjOf([type |-> Str("message"), content |-> content])
Part(text) == ObjOf([type |-> Str("output_text"), text |-> text])

\* the entries of an output list
Entries ==
    {Obj([type |-> Str("reasoning")]), Message(Undefined), Message(Arr(<<>>)),
     Message(Arr(<<Part(Undefined)>>)), Message(Arr(<<Part(TextA), Part(TextB)>>)),
     Message(Arr(<<Part(TextB)>>)), Message(Arr(<<Part(EmptyText)>>))}

RECURSIVE SeqsUpTo(_, _)
\* the sequences over S of length at most n
SeqsUpTo(S, n) ==
    IF n = 0 THEN {<<>>}
    ELSE LET shorter == SeqsUpTo(S, n - 1)
         IN  shorter \cup {Append(q, x) : q \in shorter, x \in S}

\* the response envelopes of the upstream
Envelopes ==
    {Obj([output_text |-> t]) : t \in Texts}
    \cup {ObjOf([output_text |-> t, output |-> o]) :
            t \in FewTexts \cup {Undefined, Null},
            o \in {Arr(q) : q \in SeqsUpTo(Entries, MaxOutputLen)} \cup {Undefined}}
    \cup {Obj([output |-> Arr(<<Message(Arr(<<Part(GarbageText)>>))>>)]),
          Obj([output |-> Str("none")]), Null, Str("ok")}

Unreadable == [t |-> "unreadable"]
Statuses == {200, 201, 404, 429, 500}
IsOk(status) == status >= 200 /\ status <= 299

Response(status, b) == [status |-> status, ok |-> IsOk(status), body |-> b]

\* what fetch() resolves or rejects with
FetchResults ==
    {Ok(Response(200, b)) :
        b \in {JsonText(e) : e \in Envelopes} \cup {GarbageText, Unreadable}}
    \cup {Ok(Response(s, b)) :
        s \in {s \in Statuses : IsOk(s)},
        b \in {JsonText(Obj([output_text |-> t])) : t \in {TextA, TextB, GarbageText}}}
    \cup {Ok(Response(s, b)) :
        s \in {s \in Statuses : ~IsOk(s)},
        b \in {EmptyText, Str("rate limited"), JsonText(Null), Unreadable}}
    \cup {Throw("fetch failed")}

-----------------------------------------------------------------------------
(* The handler *)

\* body.imageBase64.replace(/^data:image\/\w+;base64,/, "")
StripDataUrl(image) ==
    IF image.s = DataUrlPrefix THEN Padded("", image.pad) ELSE image

InstructionLines ==
    <<"Return ONLY JSON in this shape: {\"items\":[{\"name\":string,\"grams\":number,\"nutrients\":{\"calories\":number,\"protein_g\":number,\"carbs_g\":number,\"fat_g\":number}}]}",
      "You are a nutrition assistant.",
      "From this photo, identify the most likely foods the user will log.",
      "Return 1-4 items max. Use realistic portion grams.",
      "Provide approximate calories/protein/carbs/fat for that portion.",
      "If unsure, choose the simplest common interpretation and be conservative.">>

\* body.mealHint !== undefined ? `Meal hint: ${body.mealHint}` : ""
HintLineIfDefined(mealHint) ==
    IF mealHint.t = "string" THEN "Meal hint: " \o mealHint.s ELSE ""

\* body.mealHint ? `Meal hint: ${body.mealHint}` : ""
HintLine(mealHint) ==
    IF Truthy(mealHint) THEN "Meal hint: " \o mealHint.s ELSE ""

\* [...].filter(Boolean).join("\n")
BuildPromptText(b) ==
    Join(SelectSeq(Append(InstructionLines, HintLine(Get(b, "mealHint"))),
                   LAMBDA line : line # ""),
         "\n")

\* the request fetch() sends
UpstreamRequest(key, text, image) ==
    [url |-> "https://api.openai.com/v1/responses",
     authorization |-> "Bearer " \o key.s,
     model |-> "gpt-4.1-mini",
     text |-> text,
     image_url |-> Padded("data:image/jpeg;base64," \o image.s, image.pad),
     format |-> "json_object"]

\* openaiRes.text()
ResText(res) ==
    IF res.body.t = "unreadable" THEN Throw("body stream failed") ELSE Ok(res.body)

\* openaiRes.json()
ResJson(res) ==
    IF res.body.t = "unreadable" THEN Throw("body stream failed")
    ELSE JSONparse(res.body)

\* openaiRes.text().catch(() => "")
ErrorBody(res) == IF ResText(res).threw THEN Str("") ELSE ResText(res).value

\* `AI error: ${t}`
AiErrorMessageNoStatus(res) == "AI error: " \o ErrorBody(res).s

\* `AI error: ${openaiRes.status} ${t}`
AiErrorMessage(res) ==
    "AI error: " \o ToString(res.status) \o " " \o ErrorBody(res).s

\* data.output?.find((o) => o.type === "message")
FindMessage(entries) ==
    LET hits == {i \in 1..Len(entries) : Get(entries[i], "type") = Str("message")}
    IN  IF hits = {} THEN Undefined
        ELSE entries[CHOOSE i \in hits : \A j \in hits : i <= j]

\* content?.[0]
First(content) ==
    IF content.t = "array" /\ Len(content.elems) > 0 THEN content.elems[1]
    ELSE Undefined

\* data.output_text || data.output?.find(...)?.content?.[0]?.text || ""
ExtractTextOr(data) ==
    IF Nullish(data) THEN Throw("Cannot read properties of null")
    ELSE IF Truthy(Get(data, "output_text")) THEN Ok(Get(data, "output_text"))
    ELSE IF Nullish(Get(data, "output")) THEN Ok(Str(""))
    ELSE IF Get(data, "output").t # "array"
    THEN Throw("data.output.find is not a function")
    ELSE LET text == Get(First(Get(FindMessage(Get(data, "output").elems), "content")),
                         "text")
         IN  IF Truthy(text) THEN Ok(text) ELSE Ok(Str(""))

\* data.output_text ?? data.output?.find(...)?.content?.[0]?.text ?? ""
ExtractText(data) ==
    IF Nullish(data) THEN Throw("Cannot read properties of null")
    ELSE IF ~Nullish(Get(data, "output_text")) THEN Ok(Get(data, "output_text"))
    ELSE IF Nullish(Get(data, "output")) THEN Ok(Str(""))
    ELSE IF Get(data, "output").t # "array"
    THEN Throw("data.output.find is not a function")
    ELSE LET text == Get(First(Get(FindMessage(Get(data, "output").elems), "content")),
                         "text")
         IN  IF Nullish(text) THEN Ok(Str("")) ELSE Ok(text)

\* NextResponse.json(value, { status })
JsonResponse(value, status) == [status |-> status, body |-> value]

ErrorResponse(message, status) == JsonResponse(Obj([error |-> Str(message)]), status)

\* catch (e) { ... e?.message || "Bad request" ... }
Caught(e) == ErrorResponse(IF e.message # "" THEN e.message ELSE "Bad request", 400)

\* return a response after the stages done: the request is over
Return(r, done) ==
    /\ responses' = Append(responses, r)
    /\ stages' = stages \o done \o <<"respond">>
    /\ pc' = "done"

\* base64.length > 3_500_000, the length taken after the prefix is stripped
TooLargeStripped(image) == Length(StripDataUrl(image)) > MaxImageLen

\* body.imageBase64.length > 3_500_000
TooLarge(image) == Length(image) > MaxImageLen

\* apiKey === undefined
MissingKeyUnset(key) == key.t = "undefined"

\* !apiKey
MissingKey(key) == ~Truthy(key)

NoResponse == [status |-> 0, ok |-> FALSE, body |-> Unreadable]
NotParsed == [success |-> FALSE, data |-> Undefined, error |-> Undefined]

Init ==
    /\ pc = "received"
    /\ reqBody \in RequestBodies
    /\ apiKey \in ApiKeys
    /\ body = Undefined
    /\ base64 = Undefined
    /\ prompt = ""
    /\ openaiRes = NoResponse
    /\ textOut = Undefined
    /\ json = Undefined
    /\ parsed = NotParsed
    /\ fetched = <<>>
    /\ responses = <<>>
    /\ stages = <<>>

\* lines 34-46: parse the body, check the size and the credential
Validate ==
    /\ pc = "received"
    /\ LET b == IF reqBody.threw THEN reqBody ELSE ReqSchemaParse(reqBody.value)
       IN  /\ body' = b.value
           /\ IF b.threw THEN Return(Caught(b), <<"validate">>)
              ELSE IF TooLarge(Get(b.value, "imageBase64"))
              THEN Return(ErrorResponse("Image too large. Retake with lower quality.", 413),
                          <<"validate">>)
              ELSE IF MissingKey(apiKey)
              THEN Return(ErrorResponse("Missing OPENAI_API_KEY", 500), <<"validate">>)
              ELSE /\ pc' = "validated"
                   /\ stages' = Append(stages, "validate")
                   /\ UNCHANGED responses
    /\ UNCHANGED <<reqBody, apiKey, base64, prompt, openaiRes, textOut, json, parsed,
                   fetched>>

\* lines 48-60: strip the data-URL prefix and build the prompt
BuildPrompt ==
    /\ pc = "validated"
    /\ base64' = StripDataUrl(Get(body, "imageBase64"))
    /\ prompt' = BuildPromptText(body)
    /\ pc' = "promptBuilt"
    /\ stages' = Append(stages, "buildPrompt")
    /\ UNCHANGED <<reqBody, apiKey, body, openaiRes, textOut, json, parsed, fetched,
                   responses>>

\* lines 62-81: await fetch(...)
CallUpstream ==
    /\ pc = "promptBuilt"
    /\ fetched' = Append(fetched, UpstreamRequest(apiKey, prompt, base64))
    /\ \E r \in FetchResults :
          IF r.threw
          THEN Return(Caught(r), <<"callUpstream">>) /\ UNCHANGED openaiRes
          ELSE /\ openaiRes' = r.value
               /\ pc' = "upstreamCalled"
               /\ stages' = Append(stages, "callUpstream")
               /\ UNCHANGED responses
    /\ UNCHANGED <<reqBody, apiKey, body, base64, prompt, textOut, json, parsed>>

\* a failed attempt is tried once more before the failure is returned
UpstreamErrorRetry ==
    /\ pc = "upstreamCalled"
    /\ ~openaiRes.ok
    /\ IF Len(fetched) < 2
       THEN pc' = "promptBuilt" /\ UNCHANGED <<responses, stages>>
       ELSE Return(ErrorResponse(AiErrorMessage(openaiRes), 502), <<>>)
    /\ UNCHANGED <<reqBody, apiKey, body, base64, prompt, openaiRes, textOut, json,
                   parsed, fetched>>

\* lines 83-86: the upstream answered with a failure status
UpstreamError ==
    /\ pc = "upstreamCalled"
    /\ ~openaiRes.ok
    /\ Return(ErrorResponse(AiErrorMessage(openaiRes), 502), <<>>)
    /\ UNCHANGED <<reqBody, apiKey, body, base64, prompt, openaiRes, textOut, json,
                   parsed, fetched>>

\* lines 88-103: extract the model's text, parse it, validate it
ValidateResponse ==
    /\ pc = "upstreamCalled"
    /\ openaiRes.ok
    /\ LET data == ResJson(openaiRes)
           text == IF data.threw THEN data ELSE ExtractText(data.value)
           j == IF text.threw THEN text ELSE JSONparse(text.value)
           p == IF j.threw THEN NotParsed ELSE ResSchemaSafeParse(j.value)
       IN  /\ textOut' = IF data.threw THEN Undefined ELSE text.value
           /\ json' = IF text.threw THEN Undefined ELSE j.value
           /\ parsed' = p
           /\ IF j.threw THEN Return(Caught(j), <<"validateResponse">>)
              ELSE IF ~p.success
              THEN Return(JsonResponse(Obj([error |-> Str("AI returned unexpected format"),
                                            details |-> p.error]), 502),
                          <<"validateResponse">>)
              ELSE /\ pc' = "responseValidated"
                   /\ stages' = Append(stages, "validateResponse")
                   /\ UNCHANGED responses
    /\ UNCHANGED <<reqBody, apiKey, body, base64, prompt, openaiRes, fetched>>

\* line 105: return the validated data
Respond ==
    /\ pc = "responseValidated"
    /\ responses' = Append(responses, JsonResponse(parsed.data, 200))
    /\ stages' = Append(stages, "respond")
    /\ pc' = "done"
    /\ UNCHANGED <<reqBody, apiKey, body, base64, prompt, openaiRes, textOut, json,
                   parsed, fetched>>

Next ==
    \/ Validate
    \/ BuildPrompt
    \/ CallUpstream
    \/ UpstreamError
    \/ ValidateResponse
    \/ Respond

Spec == Init /\ [][Next]_vars

-----------------------------------------------------------------------------
(* Properties *)

Done == pc = "done"

\* the response of the finished request
TheResponse == responses[1]

\* the error string of the finished request's response
TheError == Get(TheResponse.body, "error")

\* the upstream was reached and it replied
Replied == Len(fetched) = 1 /\ openaiRes.status # 0

\* the reply was 2xx and a model text was extracted from its envelope
Extracted == Replied /\ openaiRes.ok /\ pc \in {"responseValidated", "done"}
               /\ textOut.t # "undefined"

\* the extracted text parsed as JSON: the response validator saw its value
ValidatorRan == Extracted /\ ~JSONparse(textOut).threw

\* the request body's imageBase64 and mealHint, as the caller sent them
SentImage == IF reqBody.threw THEN Undefined ELSE Get(reqBody.value, "imageBase64")
SentHint == IF reqBody.threw THEN Undefined ELSE Get(reqBody.value, "mealHint")

\* C1: a 2xx reply whose extracted model text is not valid JSON (the empty
\* string included) is answered with status 502 and a format error, never
\* with another status.
C1_BadTextIs502 ==
    (Done /\ Extracted /\ JSONparse(textOut).threw)
        => /\ TheResponse.status = 502
           /\ TheError = Str("AI returned unexpected format")

InRange(x, lo, hi) == x.t = "number" /\ ~NumLt(x, lo) /\ ~NumGt(x, hi)
Above(x, lo, hi) == x.t = "number" /\ NumGt(x, lo) /\ ~NumGt(x, hi)

\* the nutrients of an item are within their declared bounds
NutrientsInBounds(nu) ==
    /\ nu.t = "object"
    /\ InRange(Get(nu, "calories"), 0, MaxCalories)
    /\ \A k \in {"protein_g", "carbs_g", "fat_g"} : InRange(Get(nu, k), 0, MaxMacro)

GramsPositive(g) == Above(g, 0, MaxGrams)
GramsAtLeastOne(g) == InRange(g, MinGrams, MaxGrams)

\* a payload with an items list of at most 8 items, each with a non-empty
\* name, nutrients within bounds and grams above 0 (open) or from 1 (not open)
Acceptable(v, open) ==
    /\ v.t = "object"
    /\ Get(v, "items").t = "array"
    /\ Len(Get(v, "items").elems) <= MaxItems
    /\ \A i \in 1..Len(Get(v, "items").elems) :
          LET it == Get(v, "items").elems[i]
          IN  /\ it.t = "object"
              /\ Get(it, "name").t = "string" /\ Length(Get(it, "name")) >= 1
              /\ IF open THEN GramsPositive(Get(it, "grams"))
                         ELSE GramsAtLeastOne(Get(it, "grams"))
              /\ NutrientsInBounds(Get(it, "nutrients"))

\* the response is the whole-payload rejection, carrying no items
Rejected ==
    /\ TheResponse.status = 502
    /\ TheError = Str("AI returned unexpected format")
    /\ Get(TheResponse.body, "items") = Undefined

\* C2 as stated: the payload is accepted (200) exactly when grams is in
\* (0, 2000] and the other fields are within bounds; else it is rejected.
C2_AcceptsGramsAboveZero ==
    (Done /\ ValidatorRan)
        => /\ (TheResponse.status = 200) <=> Acceptable(json, TRUE)
           /\ ~Acceptable(json, TRUE) => Rejected

\* C2 amended: the payload is accepted (200) exactly when it has an items
\* list of at most 8 items, each with a non-empty name, grams in [1, 2000],
\* calories in [0, 5000] and protein_g, carbs_g, fat_g in [0, 500]; in every
\* other case the whole response is rejected with 502 and no items.
C2_AcceptsExactlyInBounds ==
    (Done /\ ValidatorRan)
        => /\ (TheResponse.status = 200) <=> Acceptable(json, FALSE)
           /\ ~Acceptable(json, FALSE) => Rejected

\* a payload of 8 items, the last of them with grams 0.5, was rejected whole
C2_Witness ==
    /\ Done /\ ValidatorRan /\ Rejected
    /\ json = Obj([items |-> ListWith(MaxItems, MaxItems,
                                      Item(Str("oatmeal"), Num(0, 1), Oatmeal))])

ShortImage == SentImage.t = "string" /\ Length(SentImage) < MinImageLen

\* C3: a request whose imageBase64 is a string shorter than 100 characters is
\* answered 400, and the upstream is never called, whatever the mealHint, the
\* credential and the upstream.
C3_ShortImageIs400 ==
    ShortImage
        => /\ fetched = <<>>
           /\ pc \in {"received", "done"}
           /\ Done => TheResponse.status = 400 /\ TheError.t = "string"

\* a 99 character image, with a credential configured, was answered
C3_Witness ==
    /\ Done /\ ShortImage /\ Length(SentImage) = MinImageLen - 1
    /\ Truthy(apiKey) /\ SentHint = Str("breakfast")
    /\ TheResponse.status = 400

LongImage == SentImage.t = "string" /\ Length(SentImage) > MaxImageLen

TooLargeAnswer ==
    /\ TheResponse.status = 413
    /\ TheError = Str("Image too large. Retake with lower quality.")

\* C4 as stated: every request whose imageBase64 is longer than 3,500,000
\* characters is answered 413 and makes no upstream call.
C4_LongImageIs413 ==
    LongImage => fetched = <<>> /\ (Done => TooLargeAnswer)

\* C4 amended: every request whose imageBase64 is longer than 3,500,000
\* characters, counted before the data-URL prefix is stripped, and whose
\* mealHint is absent or a string, is answered 413 with the "Image too large"
\* error and makes no upstream call, with or without a credential.
C4_ValidLongImageIs413 ==
    (LongImage /\ SentHint.t \in {"undefined", "string"})
        => /\ fetched = <<>>
           /\ pc \in {"received", "done"}
           /\ Done => TooLargeAnswer

\* an image of 3,500,001 characters of which 22 are a data-URL prefix got 413
\* with the credential configured
C4_Witness ==
    /\ Done /\ LongImage /\ SentImage.s = DataUrlPrefix
    /\ Length(SentImage) = MaxImageLen + 1
    /\ Truthy(apiKey) /\ TooLargeAnswer

\* the request passes request validation and the size check
PassesChecks ==
    /\ ~reqBody.threw
    /\ reqBody.value.t = "object"
    /\ SentImage.t = "string"
    /\ Length(SentImage) >= MinImageLen /\ Length(SentImage) <= MaxImageLen
    /\ SentHint.t \in {"undefined", "string"}

KeyAbsent == apiKey = Undefined \/ apiKey = Str("")

\* C5: a request that passes validation and the size check while the
\* credential is unset or empty is answered 500 "Missing OPENAI_API_KEY" and
\* no upstream call is attempted.
C5_MissingKeyIs500 ==
    (PassesChecks /\ KeyAbsent)
        => /\ fetched = <<>>
           /\ pc \in {"received", "done"}
           /\ Done => /\ TheResponse.status = 500
                      /\ TheError = Str("Missing OPENAI_API_KEY")

\* a valid request met an empty credential
C5_Witness ==
    Done /\ PassesChecks /\ apiKey = Str("") /\ TheResponse.status = 500

\* the upstream's textual body, or the empty text when it cannot be read
ReadableBody == IF openaiRes.body.t = "unreadable" THEN "" ELSE openaiRes.body.s

\* C6: a non-2xx reply of the upstream is answered 502 with the error
\* "AI error: <status> <body>"; when the body cannot be read it is taken as
\* empty and the answer is still 502.
C6_UpstreamFailureIs502 ==
    (Done /\ Replied /\ ~(openaiRes.status \in 200..299))
        => /\ TheResponse.status = 502
           /\ TheError = Str("AI error: " \o ToString(openaiRes.status) \o " "
                                \o ReadableBody)

\* the upstream replied 429 and its body could not be read
C6_Witness ==
    /\ Done /\ Replied /\ openaiRes.status = 429 /\ openaiRes.body = Unreadable
    /\ TheResponse.status = 502 /\ TheError = Str("AI error: 429 ")

\* C7 as stated: when the upstream's text parses to a schema-conforming
\* payload the answer is 200 and its body equals that payload unchanged.
C7_BodyEqualsPayload ==
    (Done /\ ValidatorRan /\ parsed.success)
        => TheResponse.status = 200 /\ TheResponse.body = json

\* the members of an object
Keys(o) == DOMAIN o.fields

\* C7 amended: when the upstream's text parses to a schema-conforming payload
\* the answer is 200 and its body holds the payload's items in the same order
\* with the payload's name, grams, calories, protein_g, carbs_g and fat_g; the
\* members the schema does not name are dropped and nothing is added.
C7_BodyEqualsPayloadFields ==
    (Done /\ ValidatorRan /\ parsed.success)
        => LET out == TheResponse.body
               got == Get(out, "items").elems
               sent == Get(json, "items").elems
           IN  /\ TheResponse.status = 200
               /\ Keys(out) = {"items"}
               /\ Len(got) = Len(sent)
               /\ \A i \in 1..Len(sent) :
                     /\ Keys(got[i]) = {"name", "grams", "nutrients"}
                     /\ Get(got[i], "name") = Get(sent[i], "name")
                     /\ Get(got[i], "grams") = Get(sent[i], "grams")
                     /\ Keys(Get(got[i], "nutrients"))
                            = {"calories", "protein_g", "carbs_g", "fat_g"}
                     /\ \A k \in Keys(Get(got[i], "nutrients")) :
                           Get(Get(got[i], "nutrients"), k)
                               = Get(Get(sent[i], "nutrients"), k)

\* a payload of 8 items, one with a fractional grams value and the last with
\* a member the schema does not name, was answered 200
C7_Witness ==
    /\ Done /\ ValidatorRan /\ TheResponse.status = 200
    /\ Len(Get(json, "items").elems) = MaxItems
    /\ "confidence" \in Keys(Get(json, "items").elems[MaxItems])
    /\ Get(Get(json, "items").elems[2], "grams") = Num(118, 1)

StageOrder == <<"validate", "buildPrompt", "callUpstream", "validateResponse", "respond">>

\* the position of a stage in the order
StageIndex(stage) == CHOOSE i \in 1..Len(StageOrder) : StageOrder[i] = stage

\* the stages so far are in order, each at most once, and all but a closing
\* respond are the first stages with none skipped
StagesLinear ==
    /\ \A i \in 1..Len(stages) : stages[i] \in {StageOrder[k] : k \in 1..Len(StageOrder)}
    /\ \A i, k \in 1..Len(stages) :
          i < k => StageIndex(stages[i]) < StageIndex(stages[k])
    /\ \A i \in 1..Len(stages) :
          stages[i] # "respond" => StageIndex(stages[i]) = i

\* at most one upstream call, made in the call stage after the checks passed
OneCallAfterChecks ==
    /\ Len(fetched) <= 1
    /\ Len(fetched) = 1 =>
          /\ PassesChecks /\ ~KeyAbsent
          /\ Len(stages) >= 3 /\ stages[3] = "callUpstream"
    /\ (Len(stages) >= 3 /\ stages[3] = "callUpstream") => Len(fetched) = 1

\* a response is given exactly when the request is over, as its last stage
OneResponse ==
    /\ Len(responses) <= 1
    /\ Done <=> Len(responses) = 1
    /\ Done <=> (Len(stages) > 0 /\ stages[Len(stages)] = "respond")
    /\ ~Done => pc \in {"received", "validated", "promptBuilt", "upstreamCalled",
                        "responseValidated"}

\* C8: the stages of a request occur in the order validate, build prompt,
\* call upstream, validate response, respond, each at most once; the upstream
\* is called at most once, only after validation, the size check and the
\* credential check passed, and never again after a failed attempt; every
\* step of the handler adds a stage, none is undone, and a finished request
\* has exactly one response, which is never replaced.
C8_LinearFlow ==
    /\ [](StagesLinear /\ OneCallAfterChecks /\ OneResponse)
    /\ [][/\ Len(stages') > Len(stages)
          /\ SubSeq(stages', 1, Len(stages)) = stages
          /\ SubSeq(fetched', 1, Len(fetched)) = fetched
          /\ SubSeq(responses', 1, Len(responses)) = responses
          /\ ~Done]_vars

\* a request went through the five stages, with one upstream call
C8_Witness ==
    /\ Done /\ Len(fetched) = 1 /\ Len(responses) = 1
    /\ stages = StageOrder

\* the first message entry of a list is at position i
FirstMessageAt(entries, i) ==
    /\ i \in 1..Len(entries)
    /\ Get(entries[i], "type") = Str("message")
    /\ \A k \in 1..(i - 1) : Get(entries[k], "type") # Str("message")

\* the text of the first content part of an entry, when it has one
FirstPartText(entry) ==
    LET content == Get(entry, "content")
    IN  IF content.t = "array" /\ Len(content.elems) >= 1
        THEN Get(content.elems[1], "text")
        ELSE Undefined

\* the envelope the upstream replied with
Envelope == ResJson(openaiRes).value

\* C9: the extracted text is the top-level output_text when it is present;
\* otherwise the text of the first content part of the first entry of the
\* output list whose type is "message"; otherwise the empty string.
C9_ExtractionPrecedence ==
    (Extracted /\ Envelope.t = "object")
        => LET top == Get(Envelope, "output_text")
               out == Get(Envelope, "output")
           IN  IF ~Nullish(top) THEN textOut = top
               ELSE IF out.t = "array"
                       /\ \E i \in 1..Len(out.elems) :
                             /\ FirstMessageAt(out.elems, i)
                             /\ ~Nullish(FirstPartText(out.elems[i]))
               THEN \E i \in 1..Len(out.elems) :
                       /\ FirstMessageAt(out.elems, i)
                       /\ textOut = FirstPartText(out.elems[i])
               ELSE textOut = Str("")

\* a first message without text was not replaced by the message after it
C9_Witness ==
    /\ Extracted /\ Envelope.t = "object"
    /\ Get(Envelope, "output_text") = Undefined
    /\ Get(Envelope, "output") =
          Arr(<<Message(Arr(<<Part(Undefined)>>)), Message(Arr(<<Part(TextB)>>))>>)
    /\ textOut = Str("")

\* the fixed instruction text
FixedPrompt == Join(InstructionLines, "\n")

PromptBuilt == pc \in {"promptBuilt", "upstreamCalled", "responseValidated"} \/ Replied
                  \/ Len(fetched) = 1

\* the prompt, here and as sent
PromptIs(text) == prompt = text /\ (Len(fetched) = 1 => fetched[1].text = text)

\* C10 as stated: the prompt ends with the line "Meal hint: <hint>" exactly
\* when mealHint is present, the empty string included.
C10_HintLineIffPresent ==
    PromptBuilt
        => IF SentHint.t = "string"
           THEN PromptIs(FixedPrompt \o "\nMeal hint: " \o SentHint.s)
           ELSE PromptIs(FixedPrompt)

\* C10 amended: the prompt ends with the line "Meal hint: <hint>", the hint
\* verbatim, exactly when mealHint is present and not the empty string; when
\* it is absent or empty the prompt is the fixed instruction text alone; the
\* prompt is a function of the request.
C10_HintLineIffNonEmpty ==
    PromptBuilt
        => IF SentHint.t = "string" /\ SentHint # Str("")
           THEN PromptIs(FixedPrompt \o "\nMeal hint: " \o SentHint.s)
           ELSE PromptIs(FixedPrompt)

\* a prompt with the hint "breakfast" was sent upstream
C10_Witness ==
    /\ Len(fetched) = 1 /\ SentHint = Str("breakfast")
    /\ fetched[1].text = FixedPrompt \o "\nMeal hint: breakfast"

====
